---- MODULE Spec2Model ----
(***************************************************************************)
(* Multi-model persistence and prediction assembly of the SVM bank:        *)
(*   src/components/python_components/models/svm.py   (variant "strict")   *)
(*   src/models/svm.py                                (variant "weak")     *)
(*                                                                         *)
(* The model store is a stream of tokens (one pickle frame per object).    *)
(* train_svm truncates it and appends one fitted Pipeline per label;       *)
(* predict_svm drives the lazy generator load_all_svms over it and         *)
(* assembles a table.  fit / predict / f1_score are opaque library         *)
(* capabilities: a fitted Pipeline is identified by the label column it    *)
(* was fitted on, a prediction cell by the object that produced it and the *)
(* dataset row, a score by an integer number of hundredths.                *)
(***************************************************************************)
EXTENDS Integers, Sequences, FiniteSets, TLC

\* ------------------------------------------------------------------ bounds
MaxLabels == 2      \* longest label list passed to a call
MaxStore  == 2      \* most records in the store before the first call
MaxRows   == 2      \* most rows of the dataset passed to predict_svm
MaxScored == 3      \* longest label list of the training-only specification

\* ----------------------------------------------------------- input domains
AvgKey     == "avg-f1-score"
LabelNames == {"a", "b", AvgKey}
Scores     == {60, 61, 80}
Variants   == {"strict", "weak"}

RECURSIVE SeqsUpTo(_, _)
SeqsUpTo(S, n) ==
    IF n = 0 THEN {<<>>}
    ELSE LET shorter == SeqsUpTo(S, n - 1)
         IN  shorter \cup {Append(s, x) : s \in {t \in shorter : Len(t) = n - 1}, x \in S}

LabelLists == SeqsUpTo(LabelNames, MaxLabels)
ScoredLabelLists == SeqsUpTo(LabelNames, MaxScored)

\* ------------------------------------------------------------------ objects
Pipeline(l)  == [cls |-> "Pipeline", id |-> l]
LinearSVC(l) == [cls |-> "LinearSVC", id |-> l]
PlainStr     == [cls |-> "str", id |-> "x"]

\* What a store may hold before the first call: fitted pipelines of an
\* earlier run, a bare classifier, a plain string.
ForeignObjects == {Pipeline("a"), Pipeline("b"), LinearSVC("a"), PlainStr}

IsPipeline(o)  == o.cls = "Pipeline"
IsLinearSVC(o) == o.cls = "LinearSVC"
HasPredict(o)  == o.cls \in {"Pipeline", "LinearSVC"}

\* svm.fit(train_input_vector, train_dataframe[label_name]) on a fresh Pipeline
FitModel(l) == Pipeline(l)

\* svm.predict(input_vector): one cell per dataset row, in row order
NaNCell == [by |-> [cls |-> "NaN", id |-> "NaN"], row |-> 0]
Predict(o, R) == [r \in 1..R |-> [by |-> o, row |-> r]]

\* ------------------------------------------------------------------- codec
\* pickle.dump(svm, f): one self-delimiting frame, no count, no header
Encode(o) == <<"PROTO", o.cls, o.id, "STOP">>

RECURSIVE StopAt(_, _)
StopAt(bytes, p) == IF bytes[p] = "STOP" THEN p ELSE StopAt(bytes, p + 1)

\* a reader that takes a last frame for the end of the data
LoadDropsLast(bytes, p) ==
    IF p + 4 > Len(bytes)
    THEN [eof |-> TRUE, obj |-> PlainStr, next |-> p]
    ELSE [eof |-> FALSE,
          obj |-> [cls |-> bytes[p + 1], id |-> bytes[p + 2]],
          next |-> StopAt(bytes, p) + 1]

\* pickle.load(f) at read position p: EOFError at the end of the data,
\* otherwise the object of the frame that starts at p and the position after it
Load(bytes, p) ==
    IF p > Len(bytes)
    THEN [eof |-> TRUE, obj |-> PlainStr, next |-> p]
    ELSE [eof |-> FALSE,
          obj |-> [cls |-> bytes[p + 1], id |-> bytes[p + 2]],
          next |-> StopAt(bytes, p) + 1]

RECURSIVE EncodeAll(_)
EncodeAll(objs) ==
    IF objs = <<>> THEN <<>> ELSE Encode(Head(objs)) \o EncodeAll(Tail(objs))

\* -------------------------------------------------------------- dictionaries
EmptyDict == [k \in {} |-> 0]
DictSet(d, k, v) == [x \in (DOMAIN d) \cup {k} |-> IF x = k THEN v ELSE d[x]]

RECURSIVE SumOver(_, _)
SumOver(d, S) ==
    IF S = {} THEN 0
    ELSE LET k == CHOOSE x \in S : TRUE IN d[k] + SumOver(d, S \ {k})

Abs(x) == IF x < 0 THEN 0 - x ELSE x

\* np.mean of no value
NaNScore == 0 - 1

\* a mean cut to two decimals instead of rounded
TruncatedMeans(d) ==
    LET n == Cardinality(DOMAIN d)
        s == SumOver(d, DOMAIN d)
    IN  IF n = 0 THEN {NaNScore} ELSE {s \div n}

\* round(np.mean(list(f1_scores.values())), 2) in hundredths: a nearest
\* hundredth; an exact tie goes either way (binary floating point decides)
RoundedMeans(d) ==
    LET n == Cardinality(DOMAIN d)
        s == SumOver(d, DOMAIN d)
    IN  IF n = 0 THEN {NaNScore}
        ELSE {a \in 0..100 : 2 * Abs(n * a - s) <= n}

\* ------------------------------------------------------------------- values
NoTable == [columns |-> <<>>, data |-> <<>>, nrows |-> 0]

Pending == [kind |-> "pending", exc |-> "", type |-> "", dict |-> EmptyDict, table |-> NoTable]
Raised(e) == [kind |-> "raise", exc |-> e, type |-> "", dict |-> EmptyDict, table |-> NoTable]
ReturnedNone == [kind |-> "return", exc |-> "", type |-> "None", dict |-> EmptyDict, table |-> NoTable]
ReturnedDict(d) == [kind |-> "return", exc |-> "", type |-> "dict", dict |-> d, table |-> NoTable]
ReturnedTable(t) == [kind |-> "return", exc |-> "", type |-> "table", dict |-> EmptyDict, table |-> t]

\* pd.DataFrame(df_model_predictions, columns=labels) of a dict: the columns
\* are `labels` in order, a label without a key is a column of NaN, and the
\* rows are those of the arrays the dict holds (none when it holds none)
FrameOfDict(d, ls, R) ==
    LET n == IF DOMAIN d = {} THEN 0 ELSE R
    IN  [columns |-> ls,
         data    |-> [k \in 1..Len(ls) |->
                        IF ls[k] \in DOMAIN d THEN d[ls[k]] ELSE [r \in 1..n |-> NaNCell]],
         nrows   |-> n]

\* pd.DataFrame(df_model_predictions, columns=labels) of a list of arrays:
\* every array is one ROW, so the width of the data is the dataset's row count
\* and must equal the number of column names
FrameOfListFits(l, ls, R) == l = <<>> \/ R = Len(ls)
FrameOfList(l, ls, R) ==
    [columns |-> ls,
     data    |-> [k \in 1..Len(ls) |-> [m \in 1..Len(l) |-> l[m][k]]],
     nrows   |-> Len(l)]

\* -------------------------------------------------------------------- state
VARIABLES
    store,       \* the model store: the tokens of the file
    written,     \* the objects appended since the store was last empty
    origin,      \* who produced the store: "external", "train", "partial"
    variant,     \* which module the current call runs
    op,          \* "none", "train" or "predict": the current or last call
    pc,          \* position inside the call; "done": the caller holds the result;
                 \* "idle": between calls
    labels,      \* the call's label list
    valid,       \* train_svm: a validation dataset was passed
    rows,        \* predict_svm: number of rows of the dataset
    fh,          \* the stream this call opened: "none", "open", "closed"
    gen,         \* the generator: "none", "created", "suspended", "finished", "closed"
    pos,         \* read position of the stream
    i,           \* train: index of the label in work (from 1); predict: enumerate's i (from 0)
    svm,         \* the object in hand
    scores,      \* train_svm: f1_scores
    recorded,    \* train_svm: the score computed for each label so far, in label order
    predDict,    \* strict predict_svm: df_model_predictions, a dict
    predList,    \* weak predict_svm: df_model_predictions, a list
    yielded,     \* what the generator has yielded in this call
    warnings,    \* weak predict_svm: lines printed
    result,      \* what the call gave its caller
    store0,      \* the store when the call started
    again,       \* this predict call repeats the previous one
    prevResult   \* the previous call's result when `again`

vars == <<store, written, origin, variant, op, pc, labels, valid, rows, fh, gen,
          pos, i, svm, scores, recorded, predDict, predList, yielded, warnings, result,
          store0, again, prevResult>>

InitWith(stores) ==
    /\ \E objs \in stores :
          /\ written = objs
          /\ store = EncodeAll(objs)
    /\ origin = "external"
    /\ variant = "strict"
    /\ op = "none"
    /\ pc = "idle"
    /\ labels = <<>>
    /\ valid = FALSE
    /\ rows = 0
    /\ fh = "none"
    /\ gen = "none"
    /\ pos = 1
    /\ i = 0
    /\ svm = PlainStr
    /\ scores = EmptyDict
    /\ recorded = <<>>
    /\ predDict = EmptyDict
    /\ predList = <<>>
    /\ yielded = <<>>
    /\ warnings = 0
    /\ result = Pending
    /\ store0 = store
    /\ again = FALSE
    /\ prevResult = Pending

\* before the first call: a store somebody wrote earlier, possibly nothing
Init == InitWith(SeqsUpTo(ForeignObjects, MaxStore))

\* the same, over stores of at most one record
InitTrain == InitWith(SeqsUpTo(ForeignObjects, 1))

\* what every new call resets
Fresh(o, v, ls) ==
    /\ op' = o
    /\ variant' = v
    /\ labels' = ls
    /\ pos' = 1
    /\ svm' = PlainStr
    /\ scores' = EmptyDict
    /\ recorded' = <<>>
    /\ predDict' = EmptyDict
    /\ predList' = <<>>
    /\ yielded' = <<>>
    /\ warnings' = 0
    /\ result' = Pending
    /\ store0' = store
    /\ fh' = "none"

\* ---------------------------------------------------------------- train_svm
\* train_svm(train_dataframe, labels, model_file, test_dataframe): entry
StartTrain(lists) ==
    /\ pc = "idle"
    /\ \E v \in Variants, ls \in lists, val \in BOOLEAN :
          /\ Fresh("train", v, ls)
          /\ valid' = val
    /\ pc' = "t_open"
    /\ rows' = 0
    /\ gen' = "none"
    /\ i' = 1
    /\ again' = FALSE
    /\ prevResult' = Pending
    /\ UNCHANGED <<store, written, origin>>

CallTrain == StartTrain(LabelLists)

\* the same entry, over the longer label lists of the training-only specification
CallTrainScored == StartTrain(ScoredLabelLists)

\* a store opened for appending ("ab") keeps what it held
OpenForAppend(bytes) == bytes

\* what open(model_file, "wb") leaves in the file
OpenForWrite(bytes) == <<>>

\* with open(model_file, "wb") as f:
TrainOpen ==
    /\ pc = "t_open"
    /\ store' = OpenForWrite(store)
    /\ written' = IF store' = <<>> THEN <<>> ELSE written
    /\ origin' = "partial"
    /\ fh' = "open"
    /\ pc' = "t_iter"
    /\ UNCHANGED <<variant, op, labels, valid, rows, gen, pos, i, svm, scores, recorded,
                   predDict, predList, yielded, warnings, result, store0, again,
                   prevResult>>

\* svm = Pipeline([...]); svm.fit(...): the fit succeeds, or raises and the
\* with statement closes the stream on the way out
TrainFit ==
    /\ pc = "t_iter"
    /\ i <= Len(labels)
    /\ \E ok \in BOOLEAN :
          IF ok
          THEN /\ svm' = FitModel(labels[i])
               /\ pc' = IF valid THEN "t_score" ELSE "t_dump"
               /\ UNCHANGED <<fh, result>>
          ELSE /\ fh' = "closed"
               /\ result' = Raised("FitError")
               /\ pc' = "done"
               /\ UNCHANGED svm
    /\ UNCHANGED <<store, written, origin, variant, op, labels, valid, rows, gen,
                   pos, i, scores, recorded, predDict, predList, yielded, warnings, store0,
                   again, prevResult>>

\* f1_scores[label_name] = round(f1_score(...), 2), or the scoring raises
TrainScore ==
    /\ pc = "t_score"
    /\ \/ \E s \in Scores :
             /\ scores' = DictSet(scores, labels[i], s)
             /\ recorded' = Append(recorded, s)
             /\ pc' = "t_dump"
             /\ UNCHANGED <<fh, result>>
       \/ /\ fh' = "closed"
          /\ result' = Raised("ScoreError")
          /\ pc' = "done"
          /\ UNCHANGED <<scores, recorded>>
    /\ UNCHANGED <<store, written, origin, variant, op, labels, valid, rows, gen,
                   pos, i, svm, predDict, predList, yielded, warnings, store0,
                   again, prevResult>>

\* pickle.dump(svm, f), and on to the next label
TrainDump ==
    /\ pc = "t_dump"
    /\ store' = store \o Encode(svm)
    /\ written' = Append(written, svm)
    /\ i' = i + 1
    /\ pc' = "t_iter"
    /\ UNCHANGED <<origin, variant, op, labels, valid, rows, fh, gen, pos, svm,
                   scores, recorded, predDict, predList, yielded, warnings, result, store0,
                   again, prevResult>>

\* the loop is over: the with statement closes the stream
TrainClose ==
    /\ pc = "t_iter"
    /\ i > Len(labels)
    /\ fh' = "closed"
    /\ origin' = "train"
    /\ pc' = "t_ret"
    /\ UNCHANGED <<store, written, variant, op, labels, valid, rows, gen, pos, i,
                   svm, scores, recorded, predDict, predList, yielded, warnings, result,
                   store0, again, prevResult>>

\* a report returned without its summary entry
WithoutAverage(d, a) == d

\* the Score Report with its summary entry
WithAverage(d, a) == DictSet(d, AvgKey, a)

\* if test_dataframe is not None: f1_scores['avg-f1-score'] = ...; return f1_scores
\* otherwise the function ends (strict) or returns None (weak)
TrainReturn ==
    /\ pc = "t_ret"
    /\ IF valid
       THEN \E a \in RoundedMeans(scores) :
               /\ scores' = WithAverage(scores, a)
               /\ result' = ReturnedDict(scores')
       ELSE /\ result' = ReturnedNone
            /\ UNCHANGED scores
    /\ pc' = "done"
    /\ UNCHANGED <<store, written, origin, variant, op, labels, valid, rows, fh,
                   gen, pos, i, svm, recorded, predDict, predList, yielded, warnings,
                   store0, again, prevResult>>

\* -------------------------------------------------------------- predict_svm
\* predict_svm(dataframe, labels, model_file): entry; load_all_svms(model_file)
\* only creates the generator, nothing of its body has run
CallPredict ==
    /\ pc = "idle"
    /\ \E v \in Variants, ls \in LabelLists, R \in 0..MaxRows :
          /\ Fresh("predict", v, ls)
          /\ rows' = R
    /\ valid' = FALSE
    /\ gen' = "created"
    /\ i' = 0
    /\ pc' = "p_next"
    /\ again' = FALSE
    /\ prevResult' = Pending
    /\ UNCHANGED <<store, written, origin>>

\* the same predict call once more: same module, labels, dataset and file
CallPredictAgain ==
    /\ pc = "done"
    /\ op = "predict"
    /\ ~again
    /\ Fresh("predict", variant, labels)
    /\ gen' = "created"
    /\ i' = 0
    /\ pc' = "p_next"
    /\ again' = TRUE
    /\ prevResult' = result
    /\ UNCHANGED <<store, written, origin, valid, rows>>

\* a store opened for update with truncation ("w+b") is emptied
OpenTruncating(bytes) == <<>>

\* what open(model_file, "rb") leaves in the file
OpenForRead(bytes) == bytes

\* the for statement asks enumerate, and so the generator, for the next item:
\* the first time the generator opens the file; then pickle.load either
\* yields an object or raises EOFError, which ends the generator, leaves the
\* with statement (closing the stream) and ends the loop
GenNext ==
    /\ pc = "p_next"
    /\ store' = IF gen = "created" THEN OpenForRead(store) ELSE store
    /\ LET r == Load(store', pos)
       IN  IF r.eof
           THEN /\ gen' = "finished"
                /\ fh' = "closed"
                /\ pc' = "p_ret"
                /\ UNCHANGED <<pos, svm, yielded>>
           ELSE /\ gen' = "suspended"
                /\ fh' = "open"
                /\ pos' = r.next
                /\ svm' = r.obj
                /\ yielded' = Append(yielded, r.obj)
                /\ pc' = "p_body"
    /\ UNCHANGED <<written, origin, variant, op, labels, valid, rows, i, scores, recorded,
                   predDict, predList, warnings, result, store0, again,
                   prevResult>>

\* An exception leaves predict_svm while the generator is suspended inside its
\* with statement.  Nothing in the code closes the generator: the stream is
\* closed when the runtime finalizes it, at once where objects are reference
\* counted (fin), at some later collection otherwise.
RaiseFromLoop(e, fin) ==
    /\ result' = Raised(e)
    /\ pc' = "done"
    /\ gen' = IF fin THEN "closed" ELSE gen
    /\ fh' = IF fin THEN "closed" ELSE fh

\* isinstance(svm, Pipeline)
StrictAccepts(o) == IsPipeline(o)

\* labels[i] of the strict variant is defined
LabelAt(ls, k) == k < Len(ls)

\* a pairing that counts the labels from the end
PairedLabelReversed(ls, k) == ls[Len(ls) - k]

\* labels[i], i counted from 0 by enumerate
PairedLabel(ls, k) == ls[k + 1]

\* strict loop body: the type check, then svm.predict, then labels[i]
PredictBodyStrict ==
    /\ pc = "p_body"
    /\ variant = "strict"
    /\ \E fin \in BOOLEAN :
          IF ~StrictAccepts(svm)
          THEN /\ RaiseFromLoop("PickleError", fin)
               /\ UNCHANGED <<predDict, i>>
          ELSE IF ~LabelAt(labels, i)
          THEN /\ RaiseFromLoop("IndexError", fin)
               /\ UNCHANGED <<predDict, i>>
          ELSE /\ predDict' = DictSet(predDict, PairedLabel(labels, i), Predict(svm, rows))
               /\ i' = i + 1
               /\ pc' = "p_next"
               /\ UNCHANGED <<result, gen, fh>>
    /\ UNCHANGED <<store, written, origin, variant, op, labels, valid, rows, pos,
                   svm, scores, recorded, predList, yielded, warnings, store0, again,
                   prevResult>>

\* isinstance(svm, LinearSVC)
WeakAccepts(o) == IsLinearSVC(o)

\* weak loop body: the type check only prints; svm.predict is called on
\* whatever was loaded (AttributeError when it has no predict)
PredictBodyWeak ==
    /\ pc = "p_body"
    /\ variant = "weak"
    /\ warnings' = IF WeakAccepts(svm) THEN warnings ELSE warnings + 1
    /\ \E fin \in BOOLEAN :
          IF ~HasPredict(svm)
          THEN /\ RaiseFromLoop("AttributeError", fin)
               /\ UNCHANGED <<predList, i>>
          ELSE /\ predList' = Append(predList, Predict(svm, rows))
               /\ i' = i + 1
               /\ pc' = "p_next"
               /\ UNCHANGED <<result, gen, fh>>
    /\ UNCHANGED <<store, written, origin, variant, op, labels, valid, rows, pos,
                   svm, scores, recorded, predDict, yielded, store0, again, prevResult>>

\* return pd.DataFrame(df_model_predictions, columns=labels)
PredictReturn ==
    /\ pc = "p_ret"
    /\ result' = IF variant = "strict"
                 THEN ReturnedTable(FrameOfDict(predDict, labels, rows))
                 ELSE IF FrameOfListFits(predList, labels, rows)
                      THEN ReturnedTable(FrameOfList(predList, labels, rows))
                      ELSE Raised("ValueError")
    /\ pc' = "done"
    /\ UNCHANGED <<store, written, origin, variant, op, labels, valid, rows, fh,
                   gen, pos, i, svm, scores, recorded, predDict, predList, yielded,
                   warnings, store0, again, prevResult>>

\* the runtime collects the abandoned generator: GeneratorExit at the yield
\* leaves the with statement and closes the stream
Finalize ==
    /\ pc = "done"
    /\ gen = "suspended"
    /\ gen' = "closed"
    /\ fh' = "closed"
    /\ UNCHANGED <<store, written, origin, variant, op, pc, labels, valid, rows,
                   pos, i, svm, scores, recorded, predDict, predList, yielded, warnings,
                   result, store0, again, prevResult>>

\* the caller is through with the result; the next call starts from the store
Forget ==
    /\ pc = "done"
    /\ pc' = "idle"
    /\ Fresh("none", "strict", <<>>)
    /\ valid' = FALSE
    /\ rows' = 0
    /\ gen' = "none"
    /\ i' = 0
    /\ again' = FALSE
    /\ prevResult' = Pending
    /\ UNCHANGED <<store, written, origin>>

Next ==
    \/ CallTrain
    \/ TrainOpen
    \/ TrainFit
    \/ TrainScore
    \/ TrainDump
    \/ TrainClose
    \/ TrainReturn
    \/ CallPredict
    \/ CallPredictAgain
    \/ GenNext
    \/ PredictBodyStrict
    \/ PredictBodyWeak
    \/ PredictReturn
    \/ Finalize
    \/ Forget

Spec == Init /\ [][Next]_vars

\* one training run alone, over longer label lists
NextTrain ==
    \/ CallTrainScored
    \/ TrainOpen
    \/ TrainFit
    \/ TrainScore
    \/ TrainDump
    \/ TrainClose
    \/ TrainReturn

TrainSpec == InitTrain /\ [][NextTrain]_vars

\* ================================================================== claims
Done == pc = "done"
StrictPredictDone == Done /\ op = "predict" /\ variant = "strict"
TrainReturned == Done /\ op = "train" /\ result.kind = "return"

Names(ls) == {ls[k] : k \in 1..Len(ls)}
Distinct(ls) == \A j, k \in 1..Len(ls) : j # k => ls[j] # ls[k]
AllPipelines(rs) == \A k \in 1..Len(rs) : rs[k].cls = "Pipeline"
CellsOf(o, R) == [r \in 1..R |-> [by |-> o, row |-> r]]
IsNaNColumn(c) == \A r \in 1..Len(c) : c[r].by.cls = "NaN"

\* the score train_svm computed for a label name (the last one under that name)
LastIndex(ls, name) ==
    CHOOSE k \in 1..Len(ls) : ls[k] = name /\ \A j \in (k + 1)..Len(ls) : ls[j] # name
OwnScore(name) == recorded[LastIndex(labels, name)]

RECURSIVE SumOwn(_)
SumOwn(S) ==
    IF S = {} THEN 0
    ELSE LET n == CHOOSE x \in S : TRUE IN OwnScore(n) + SumOwn(S \ {n})

\* a is the mean of the scores of the names S, to the nearest hundredth
IsRoundedMean(a, S) ==
    LET n == Cardinality(S)
    IN  IF n = 0 THEN a = NaNScore
        ELSE a \in 0..100 /\ 2 * Abs(n * a - SumOwn(S)) <= n

\* ---------------------------------------------------------------------- C1
\* C1 (as stated): in the strict variant, whenever some record of the store is
\* not a fitted Pipeline, predict_svm raises PickleError, whatever surrounds it.
C1_BadRecordRaisesPickleError ==
    (StrictPredictDone /\ ~AllPipelines(written)) => result = Raised("PickleError")

\* ---------------------------------------------------------------------- C2
\* C2: the generator yields the objects of the store in write order, one per
\* frame, and when it ends (on end of data, without an error) it has yielded
\* exactly the objects that were written.
C2_RoundTrip ==
    (op = "predict" /\ pc # "idle") =>
        /\ Len(yielded) <= Len(written)
        /\ yielded = SubSeq(written, 1, Len(yielded))
        /\ (gen = "finished" => yielded = written /\ fh = "closed")

C2_Witness ==
    /\ op = "predict"
    /\ gen = "finished"
    /\ origin = "train"
    /\ Len(yielded) = 2
    /\ yielded[1] # yielded[2]

\* ---------------------------------------------------------------------- C3
\* C3 (as stated): with N labels and exactly N valid models, strict predict_svm
\* returns a table whose columns are the labels in order, with as many rows as
\* the dataset, the i-th column holding the i-th model's predictions.
C3_TableAsStated ==
    (StrictPredictDone /\ AllPipelines(written) /\ Len(written) = Len(labels)) =>
        /\ result.kind = "return" /\ result.type = "table"
        /\ result.table.columns = labels
        /\ result.table.nrows = rows
        /\ \A k \in 1..Len(labels) : result.table.data[k] = CellsOf(written[k], rows)

\* C3 (amended): the same for N >= 1 pairwise distinct labels; with no label
\* at all the table has no column and no row.
C3_Table ==
    (StrictPredictDone /\ AllPipelines(written) /\ Len(written) = Len(labels)
        /\ Distinct(labels)) =>
        /\ result.kind = "return" /\ result.type = "table"
        /\ result.table.columns = labels
        /\ result.table.nrows = (IF Len(labels) >= 1 THEN rows ELSE 0)
        /\ \A k \in 1..Len(labels) : result.table.data[k] = CellsOf(written[k], rows)

C3_Witness ==
    /\ StrictPredictDone
    /\ AllPipelines(written)
    /\ Len(written) = 2 /\ Len(labels) = 2
    /\ Distinct(labels)
    /\ written[1] # written[2]
    /\ rows = 2
    /\ result.kind = "return"

\* ---------------------------------------------------------------------- C4
\* C4 (as stated): train_svm without validation returns None; with validation
\* it returns a mapping of exactly len(labels) + 1 entries, whatever the labels.
C4_ReportSizeAsStated ==
    TrainReturned =>
        IF valid
        THEN result.type = "dict" /\ Cardinality(DOMAIN result.dict) = Len(labels) + 1
        ELSE result.type = "None"

\* C4 (amended): ... with validation the mapping has one entry per distinct
\* label name plus 'avg-f1-score' (one entry in all when that is itself a
\* label): len(labels) + 1 entries when the names are pairwise distinct and
\* none of them is 'avg-f1-score'.
C4_ReportSize ==
    TrainReturned =>
        IF valid
        THEN /\ result.type = "dict"
             /\ DOMAIN result.dict = Names(labels) \cup {AvgKey}
             /\ (Distinct(labels) /\ AvgKey \notin Names(labels)) =>
                    Cardinality(DOMAIN result.dict) = Len(labels) + 1
        ELSE result.type = "None" /\ result.dict = EmptyDict

C4_Witness ==
    /\ TrainReturned
    /\ valid
    /\ Len(labels) = 2
    /\ Distinct(labels)
    /\ AvgKey \notin Names(labels)
    /\ Cardinality(DOMAIN result.dict) = 3

\* ---------------------------------------------------------------------- C5
\* C5 (as stated): with only valid models in the store, strict predict_svm never
\* fails over the number M of models against the number N of labels: it
\* returns, and labels no model was paired with get no prediction.
C5_MismatchNeverAnError ==
    (StrictPredictDone /\ AllPipelines(written)) =>
        /\ result.kind = "return"
        /\ \A k \in 1..Len(labels) :
              labels[k] \notin Names(SubSeq(labels, 1, Len(written))) =>
                  IsNaNColumn(result.table.data[k])

C7_ReportAsStated ==
    (TrainReturned /\ valid) =>
        /\ \A k \in 1..Len(labels) : result.dict[labels[k]] = OwnScore(labels[k])
        /\ IsRoundedMean(result.dict[AvgKey], Names(labels))

\* C7 (amended): every label other than 'avg-f1-score' maps to its own recorded
\* score; 'avg-f1-score' maps to the rounded mean of the recorded scores, one
\* per distinct label name (that of a label named 'avg-f1-score' included, which
\* the mean then replaces), and to NaN when there is no label.
C7_Report ==
    (TrainReturned /\ valid) =>
        /\ \A k \in 1..Len(labels) :
              labels[k] # AvgKey => result.dict[labels[k]] = OwnScore(labels[k])
        /\ IsRoundedMean(result.dict[AvgKey], Names(labels))

C7_Witness ==
    /\ TrainReturned
    /\ valid
    /\ labels = <<"a", "b">>
    /\ recorded = <<80, 60>>
    /\ result.dict = [k \in {"a", "b", AvgKey} |->
                        IF k = "a" THEN 80 ELSE IF k = "b" THEN 60 ELSE 70]

\* ---------------------------------------------------------------------- C8
\* C8: predict_svm never changes the store, and the same call repeated gives
\* its caller the same outcome (the same table, or the same error).
C8_PredictReadOnly ==
    op = "predict" =>
        /\ store = store0
        /\ (again /\ Done) => result = prevResult

C8_Witness ==
    /\ op = "predict"
    /\ again
    /\ Done
    /\ result.kind = "return"
    /\ result.table.nrows = 2
    /\ Len(result.table.columns) = 2

C10_WeakStillReturnsTable ==
    (Done /\ op = "predict" /\ variant = "weak" /\ origin = "train") =>
        /\ warnings = Len(written)
        /\ result.kind = "return" /\ result.type = "table"

====
